---- MODULE Spec2Model ----
(***************************************************************************)
(* queuectl: a SQLite-backed job queue with worker processes.              *)
(*                                                                         *)
(* The store is one table of job records (storage.py).  Every Storage      *)
(* method runs one SQL statement in its own transaction, so every Storage  *)
(* call is one atomic step here.  mark_failed and retry_from_dlq read the  *)
(* row with one store call and write it with a second: they are two steps, *)
(* with the value read kept in the caller's local state.                   *)
(*                                                                         *)
(* Processes: the workers (Worker.run) and the command-line clients that   *)
(* call JobManager.retry_from_dlq; enqueue is one step (see Enqueue).      *)
(* The table holds one job id, so that workers and clients contend for     *)
(* the same row.                                                           *)
(*                                                                         *)
(* Specifications: Spec is the queue with its workers and retry clients.   *)
(* ReadySpec is the ready query on the timestamps as texts, with two       *)
(* jobs.  ApiSpec is one caller applying the operations one after the      *)
(* other.  EnqueueSpec is enqueue in its two store calls, by two clients.  *)
(* StatusSpec is get_status in its five list calls.  StampSpec is          *)
(* update_job with its timestamp read apart from its UPDATE.  StopSpec     *)
(* adds WorkerManager.stop_workers.  LiveSpec is the queue under fair      *)
(* scheduling with an unbounded clock.  CrashSpec adds the death of a       *)
(* worker process.  SupervisorSpec is WorkerManager with its pid file:     *)
(* start_workers and stop_workers.  RunsSpec counts the executions of a    *)
(* job since its enqueue or latest retry.  ShutdownSpec is LiveSpec with   *)
(* every worker open to a shutdown signal and a fair exit.                 *)
(***************************************************************************)
EXTENDS Integers, Sequences, FiniteSets, TLC

\* ---------------------------------------------------------------- bounds

\* The clock is read as an integer number of ticks; it stops at MaxClock.
MaxClock == 2

\* The largest max_retries a client passes to enqueue.
MaxRetriesInput == 1

\* The attempts counter is followed up to MaxAttempts: a worker that would
\* count past it is not followed further.
MaxAttempts == 4

\* Executions of one job are counted up to MaxExecs ("MaxExecs or more").
MaxExecs == 2

\* ReadySpec follows the clock in half seconds, up to MaxTextTime.
MaxTextTime == 3

\* The largest limit passed to get_ready_jobs in ReadySpec.
MaxLimit == 2

\* ------------------------------------------------------------ constants

\* Config.DEFAULT_CONFIG["max_retries"]
DefaultMaxRetries == 3

\* Config.DEFAULT_CONFIG["backoff_base"] (2.0)
BackoffBase == 2

\* SQL NULL / Python None in a text column (error_message, lock_id) and in
\* a local variable holding a job id.
None == "None"

\* SQL NULL / Python None in the scheduled_at column.
NoTime == -1

\* An enqueue input without the "max_retries" key.
NoRetries == -1

Workers == {"w1", "w2"}

Clients == {"c1", "c2"}

JobIds == {"j1"}

Commands == {"cmd"}

\* The messages Worker._execute_command returns with success = False,
\* as prefixed by Worker._process_job.
Errors == {"Command failed"}

VALID_STATES == {"pending", "processing", "completed", "failed", "dead"}

\* The enqueue inputs: job_data with 'id' and 'command', and optionally
\* 'max_retries' and 'scheduled_at'.
MaxRetriesInputs == {NoRetries} \cup (0 .. MaxRetriesInput)

ScheduledAtInputs == {NoTime, 2}

VARIABLES
    clock,     \* datetime.utcnow(), in ticks
    store,     \* the jobs table: job id -> row
    worker,    \* per worker: position in Worker.run and its local variables
    client,    \* per client: position in the JobManager call and its locals
    execs,     \* history: job id -> number of times a worker started its command
    pidfile    \* ~/.queuectl/workers.pid: the PIDs the last start recorded

vars == <<clock, store, worker, client, execs, pidfile>>

\* -------------------------------------------------------------- helpers

\* base ** attempts
RECURSIVE Pow(_, _)
Pow(b, n) == IF n <= 0 THEN 1 ELSE b * Pow(b, n - 1)

\* A backoff computed from the attempts count before the failed attempt.
calculate_backoff_delay_PreIncrement(attempts, base) == Pow(base, attempts - 1)

\* utils.calculate_backoff_delay
calculate_backoff_delay(attempts, base) == Pow(base, attempts)

\* dict.update(): the row with the fields of `updates` overwritten.
Merge(row, updates) ==
    [f \in DOMAIN row |-> IF f \in DOMAIN updates THEN updates[f] ELSE row[f]]

\* ---------------------------------------------------------------- store

\* Storage.get_job: the row, or None when there is none.
HasJob(s, id) == id \in DOMAIN s

\* An INSERT OR REPLACE: the new row takes the place of a row with its id.
create_job_Replace(s, job) ==
    [id \in DOMAIN s \cup {job.id} |-> IF id = job.id THEN job ELSE s[id]]

\* Storage.create_job: INSERT; the primary key rejects a second row with
\* the same id (sqlite3.IntegrityError, the transaction is rolled back).
create_job(s, job) ==
    IF HasJob(s, job.id) THEN s ELSE s @@ (job.id :> job)

\* Storage.update_job: UPDATE jobs SET <updates>, updated_at = now WHERE id = ?
update_job(s, id, updates, now) ==
    IF HasJob(s, id)
    THEN [s EXCEPT ![id] = Merge(Merge(@, updates), [updated_at |-> now])]
    ELSE s

\* A WHERE clause without "AND state = 'pending'".
CanAcquire_IgnoreState(s, id) ==
    /\ HasJob(s, id)
    /\ (s[id].lock_id = None \/ s[id].lock_id = "")

\* The WHERE clause of Storage.acquire_job_lock.
CanAcquire(s, id) ==
    /\ HasJob(s, id)
    /\ (s[id].lock_id = None \/ s[id].lock_id = "")
    /\ s[id].state = "pending"

\* Storage.acquire_job_lock: the table after the UPDATE.
acquire_job_lock(s, id, lock_id, now) ==
    IF CanAcquire(s, id)
    THEN [s EXCEPT ![id] = Merge(@, [lock_id |-> lock_id,
                                     state |-> "processing",
                                     updated_at |-> now])]
    ELSE s

\* A release that does not ask whose lock it clears.
CanRelease_AnyOwner(s, id, lock_id) == HasJob(s, id)

\* The WHERE clause of Storage.release_job_lock.
CanRelease(s, id, lock_id) == HasJob(s, id) /\ s[id].lock_id = lock_id

\* Storage.release_job_lock: the table after the UPDATE.
release_job_lock(s, id, lock_id, now) ==
    IF CanRelease(s, id, lock_id)
    THEN [s EXCEPT ![id] = Merge(@, [lock_id |-> None, updated_at |-> now])]
    ELSE s

\* The WHERE clause of Storage.get_ready_jobs.
IsReady(s, id, now) ==
    /\ s[id].state = "pending"
    /\ (s[id].scheduled_at = NoTime \/ s[id].scheduled_at <= now)

\* Storage.get_ready_jobs(limit=1): the ids that can be the first row of
\* ORDER BY created_at (rows with equal created_at come in either order).
FirstReady(s, now) ==
    {id \in DOMAIN s :
        /\ IsReady(s, id, now)
        /\ \A o \in DOMAIN s :
              IsReady(s, o, now) => s[id].created_at <= s[o].created_at}

\* Storage.list_jobs(state): the ids of the rows in that state.
list_jobs(s, state) == {id \in DOMAIN s : s[id].state = state}

\* ------------------------------------------------------------ processes

WorkerInit == [pc |-> "poll", job |-> None, current_job_id |-> None,
               attempts |-> 0, err |-> None, should_stop |-> FALSE]

ClientInit == [pc |-> "idle", id |-> None]

\* The positions of a worker whose process does not exist: never started,
\* returned from Worker.run, killed.
Gone == {"none", "stopped", "killed"}

\* The process of worker w exists: os.kill(pid, 0) finds it.
Live(w) == worker[w].pc \notin Gone

Init ==
    /\ clock = 0
    /\ store = <<>>
    /\ worker = [w \in Workers |-> WorkerInit]
    /\ client = [c \in Clients |-> ClientInit]
    /\ execs = [id \in JobIds |-> 0]
    /\ pidfile = Workers

\* The clock advances.
Tick ==
    /\ clock < MaxClock
    /\ clock' = clock + 1
    /\ UNCHANGED <<store, worker, client, execs, pidfile>>

\* ----------------------------------------------------- JobManager.enqueue

\* The record JobManager.enqueue builds from its input.
NewJob(id, command, max_retries, scheduled_at, now) ==
    [id |-> id, command |-> command, state |-> "pending", attempts |-> 0,
     max_retries |-> IF max_retries = NoRetries THEN DefaultMaxRetries
                     ELSE max_retries,
     created_at |-> now, updated_at |-> now, scheduled_at |-> scheduled_at,
     error_message |-> None, lock_id |-> None]

\* JobManager.enqueue(job_data).  A missing 'id' or 'command' (None here)
\* raises ValueError.  The duplicate check reads storage.get_job(id) and
\* storage.create_job then INSERTs; a row that appeared in between is
\* rejected by the primary key, so in every interleaving the row is
\* inserted exactly when the INSERT finds no row with this id, and a
\* rejected call changes nothing: the call is one step, taken at its INSERT.
Enqueue(id, command, max_retries, scheduled_at) ==
    /\ IF id = None \/ command = None \/ HasJob(store, id)
       THEN UNCHANGED store
       ELSE store' = create_job(store,
                        NewJob(id, command, max_retries, scheduled_at, clock))
    /\ UNCHANGED <<clock, worker, client, execs, pidfile>>

\* ----------------------------------------------- JobManager.retry_from_dlq

\* A retry that keeps the attempts counter and the last error.
RetryUpdates_KeepAttempts ==
    [state |-> "pending", scheduled_at |-> NoTime, lock_id |-> None]

\* The fields retry_from_dlq writes.
RetryUpdates ==
    [state |-> "pending", attempts |-> 0, error_message |-> None,
     scheduled_at |-> NoTime, lock_id |-> None]

\* A retry that accepts a job in any state.
RetryCheck_AnyState(s, id) ==
    IF ~HasJob(s, id) THEN "NotFound" ELSE "ok"

\* The checks of retry_from_dlq on the row storage.get_job(id) returns:
\* ValueError("Job not found") for no row, ValueError("Job is not in DLQ")
\* for a row whose state is not dead.
RetryCheck(s, id) ==
    IF ~HasJob(s, id) THEN "NotFound"
    ELSE IF s[id].state # "dead" THEN "InvalidState"
    ELSE "ok"

\* retry_from_dlq(id), the whole call on the table s at the time `now`.
retry_from_dlq(s, id, now) ==
    IF RetryCheck(s, id) = "ok" THEN update_job(s, id, RetryUpdates, now) ELSE s

\* retry_from_dlq, up to the state check: storage.get_job(id) is read; a
\* missing job or a job not in state dead raises ValueError.
RetryGet(c, id) ==
    /\ client[c].pc = "idle"
    /\ IF RetryCheck(store, id) = "ok"
       THEN client' = [client EXCEPT ![c].pc = "retry_update", ![c].id = id]
       ELSE UNCHANGED client
    /\ UNCHANGED <<clock, store, worker, execs, pidfile>>

\* retry_from_dlq, the storage.update_job call.
RetryUpdate(c) ==
    /\ client[c].pc = "retry_update"
    /\ store' = update_job(store, client[c].id, RetryUpdates, clock)
    /\ client' = [client EXCEPT ![c] = ClientInit]
    /\ UNCHANGED <<clock, worker, execs, pidfile>>

\* --------------------------------------------------------------- Worker

\* A loop head that does not look at should_stop.
Poll_IgnoreStop(w) ==
    /\ worker[w].pc = "poll"
    /\ IF FirstReady(store, clock) = {}
       THEN UNCHANGED worker
       ELSE \E id \in FirstReady(store, clock) :
               worker' = [worker EXCEPT ![w].pc = "claim", ![w].job = id]
    /\ UNCHANGED <<clock, store, client, execs, pidfile>>

\* Worker.run, one pass of the loop head: should_stop is false,
\* get_ready_jobs(limit=1) is read; with no ready job the worker sleeps and
\* polls again, otherwise it goes on to claim ready_jobs[0].
Poll(w) ==
    /\ worker[w].pc = "poll"
    /\ ~worker[w].should_stop
    /\ IF FirstReady(store, clock) = {}
       THEN UNCHANGED worker
       ELSE \E id \in FirstReady(store, clock) :
               worker' = [worker EXCEPT ![w].pc = "claim", ![w].job = id]
    /\ UNCHANGED <<clock, store, client, execs, pidfile>>

\* Worker.run: storage.acquire_job_lock(job["id"], worker_id); on False the
\* worker sleeps and polls again.
Claim(w) ==
    /\ worker[w].pc = "claim"
    /\ store' = acquire_job_lock(store, worker[w].job, w, clock)
    /\ worker' = [worker EXCEPT
            ![w].pc = IF CanAcquire(store, worker[w].job)
                      THEN "fetch" ELSE "poll",
            ![w].job = IF CanAcquire(store, worker[w].job)
                       THEN @ ELSE None]
    /\ UNCHANGED <<clock, client, execs, pidfile>>

\* Worker.run: job = storage.get_job(job["id"]), then _process_job sets
\* current_job_id and starts the command.
Fetch(w) ==
    /\ worker[w].pc = "fetch"
    /\ worker' = [worker EXCEPT ![w].pc = "exec",
                                ![w].current_job_id = worker[w].job]
    /\ execs' = [execs EXCEPT ![worker[w].job] =
                    IF @ < MaxExecs THEN @ + 1 ELSE @]
    /\ UNCHANGED <<clock, store, client, pidfile>>

\* The fields JobManager.mark_completed writes.
CompletedUpdates == [state |-> "completed", error_message |-> None]

\* A mark_completed that counts the execution as an attempt.
mark_completed_CountAttempt(s, id, now) ==
    IF HasJob(s, id)
    THEN update_job(s, id, [state |-> "completed", error_message |-> None,
                            attempts |-> s[id].attempts + 1], now)
    ELSE s

\* JobManager.mark_completed(id), the whole call on the table s.
mark_completed(s, id, now) == update_job(s, id, CompletedUpdates, now)

\* Worker._process_job with success = True: job_manager.mark_completed.
MarkCompleted(w) ==
    /\ worker[w].pc = "exec"
    /\ store' = mark_completed(store, worker[w].job, clock)
    /\ worker' = [worker EXCEPT ![w].pc = "release"]
    /\ UNCHANGED <<clock, client, execs, pidfile>>

\* A mark_failed that takes the attempts of the row as the new attempts.
MarkFailedGet_NoIncrement(w, err) ==
    /\ worker[w].pc = "exec"
    /\ IF HasJob(store, worker[w].job)
       THEN worker' = [worker EXCEPT ![w].pc = "mf_update", ![w].err = err,
                          ![w].attempts = store[worker[w].job].attempts]
       ELSE worker' = [worker EXCEPT ![w].pc = "release"]
    /\ UNCHANGED <<clock, store, client, execs, pidfile>>

\* Worker._process_job with success = False, and mark_failed up to its
\* storage.get_job call: attempts is read from the row.  With no row
\* mark_failed logs and returns.
MarkFailedGet(w, err) ==
    /\ worker[w].pc = "exec"
    /\ HasJob(store, worker[w].job) => store[worker[w].job].attempts < MaxAttempts
    /\ IF HasJob(store, worker[w].job)
       THEN worker' = [worker EXCEPT ![w].pc = "mf_update", ![w].err = err,
                          ![w].attempts = store[worker[w].job].attempts + 1]
       ELSE worker' = [worker EXCEPT ![w].pc = "release"]
    /\ UNCHANGED <<clock, store, client, execs, pidfile>>

\* mark_failed leaving lock_id to the release that follows.
FailedUpdates_KeepLock(attempts, max_retries, err, now) ==
    IF attempts >= max_retries
    THEN [state |-> "dead", attempts |-> attempts, error_message |-> err]
    ELSE [state |-> "pending", attempts |-> attempts, error_message |-> err,
          scheduled_at |-> now + calculate_backoff_delay(attempts, BackoffBase)]

\* mark_failed comparing with > instead of >=.
FailedUpdates_OffByOne(attempts, max_retries, err, now) ==
    IF attempts > max_retries
    THEN [state |-> "dead", attempts |-> attempts, error_message |-> err,
          lock_id |-> None]
    ELSE [state |-> "pending", attempts |-> attempts, error_message |-> err,
          scheduled_at |-> now + calculate_backoff_delay(attempts, BackoffBase),
          lock_id |-> None]

\* The fields mark_failed writes, from attempts = job['attempts'] + 1 and
\* max_retries = job['max_retries'] of the row it read.
FailedUpdates(attempts, max_retries, err, now) ==
    IF attempts >= max_retries
    THEN [state |-> "dead", attempts |-> attempts, error_message |-> err,
          lock_id |-> None]
    ELSE [state |-> "pending", attempts |-> attempts, error_message |-> err,
          scheduled_at |-> now + calculate_backoff_delay(attempts, BackoffBase),
          lock_id |-> None]

\* A mark_failed that decides on attempts + 1 but writes back the attempts
\* it read.
mark_failed_StaleAttempts(s, id, err, now) ==
    IF ~HasJob(s, id) THEN s
    ELSE update_job(s, id,
             Merge(FailedUpdates(s[id].attempts + 1, s[id].max_retries, err, now),
                   [attempts |-> s[id].attempts]),
             now)

\* JobManager.mark_failed(id, err), the whole call on the table s with no
\* other call in between.
mark_failed(s, id, err, now) ==
    IF ~HasJob(s, id) THEN s
    ELSE update_job(s, id,
             FailedUpdates(s[id].attempts + 1, s[id].max_retries, err, now),
             now)

\* mark_failed, from the retry decision to its storage.update_job call
\* (datetime.utcnow() and get_timestamp() are read in this step).
MarkFailedUpdate(w) ==
    /\ worker[w].pc = "mf_update"
    /\ store' = update_job(store, worker[w].job,
                    FailedUpdates(worker[w].attempts,
                                  store[worker[w].job].max_retries,
                                  worker[w].err, clock),
                    clock)
    /\ worker' = [worker EXCEPT ![w].pc = "release", ![w].attempts = 0,
                                ![w].err = None]
    /\ UNCHANGED <<clock, client, execs, pidfile>>

\* Worker._process_job: storage.release_job_lock(job_id, worker_id), then
\* current_job_id = None.
Release(w) ==
    /\ worker[w].pc = "release"
    /\ store' = release_job_lock(store, worker[w].job, w, clock)
    /\ worker' = [worker EXCEPT ![w].pc = "poll", ![w].job = None,
                                ![w].current_job_id = None]
    /\ UNCHANGED <<clock, client, execs, pidfile>>

\* Worker._signal_handler: SIGTERM or SIGINT sets should_stop.
Signal(w) ==
    /\ Live(w)
    /\ ~worker[w].should_stop
    /\ worker' = [worker EXCEPT ![w].should_stop = TRUE]
    /\ UNCHANGED <<clock, store, client, execs, pidfile>>

\* A worker that stops as soon as it is asked to, also in the middle of a
\* command.
Exit_MidJob(w) ==
    /\ worker[w].pc \in {"poll", "exec"}
    /\ worker[w].should_stop
    /\ store' = IF worker[w].current_job_id # None
                THEN release_job_lock(store, worker[w].current_job_id, w, clock)
                ELSE store
    /\ worker' = [worker EXCEPT ![w].pc = "stopped"]
    /\ UNCHANGED <<clock, client, execs, pidfile>>

\* Worker.run after the loop: should_stop was seen at the loop head; a
\* current_job_id still set is released, then the worker stops.
Exit(w) ==
    /\ worker[w].pc = "poll"
    /\ worker[w].should_stop
    /\ store' = IF worker[w].current_job_id # None
                THEN release_job_lock(store, worker[w].current_job_id, w, clock)
                ELSE store
    /\ worker' = [worker EXCEPT ![w].pc = "stopped"]
    /\ UNCHANGED <<clock, client, execs, pidfile>>

\* ----------------------------------------------------------------- Next

Next ==
    \/ Tick
    \/ \E id \in JobIds \cup {None}, command \in Commands \cup {None},
          mr \in MaxRetriesInputs, sa \in ScheduledAtInputs :
          Enqueue(id, command, mr, sa)
    \/ \E c \in Clients, id \in JobIds : RetryGet(c, id)
    \/ \E c \in Clients : RetryUpdate(c)
    \/ \E w \in Workers : Poll(w)
    \/ \E w \in Workers : Claim(w)
    \/ \E w \in Workers : Fetch(w)
    \/ \E w \in Workers : MarkCompleted(w)
    \/ \E w \in Workers, err \in Errors : MarkFailedGet(w, err)
    \/ \E w \in Workers : MarkFailedUpdate(w)
    \/ \E w \in Workers : Release(w)
    \/ \E w \in Workers : Signal(w)
    \/ \E w \in Workers : Exit(w)

Spec == Init /\ [][Next]_vars

\* ============================================================ ReadySpec
\* The ready query on the timestamps as the store holds them: TEXT columns
\* written by datetime.isoformat() and compared by SQLite as strings.  A
\* text is a sequence of character codes.  The clock counts half seconds
\* here, so that both forms isoformat() writes occur: "<seconds>" when the
\* microsecond field is 0 and "<seconds>.<fraction>" otherwise.  The table
\* holds two jobs; scheduled_at inputs are texts in this same format.

\* Character codes: "." sorts before the digits.
Dot == 46
Zero == 48
Five == 53

\* SQL NULL in a TEXT timestamp column.
NULL == <<>>

ReadyJobIds == {"a", "b"}

\* The poller of ReadySpec.
ReadyWorkers == {"w1"}

\* datetime.isoformat() of the time t (in half seconds): the fraction is
\* left out when it is zero.
isoformat(t) ==
    IF t % 2 = 0
    THEN <<Zero + (t \div 2)>>
    ELSE <<Zero + (t \div 2), Dot, Five>>

\* utils.get_timestamp()
get_timestamp(now) == isoformat(now)

\* utils.parse_timestamp (datetime.fromisoformat): the time a text denotes.
parse_timestamp(text) ==
    2 * (text[1] - Zero) + (IF Len(text) > 1 THEN 1 ELSE 0)

\* SQLite's comparison of two TEXT values (BINARY collation): byte by
\* byte, and a proper prefix sorts first.
RECURSIVE TextLeq(_, _)
TextLeq(a, b) ==
    IF a = <<>> THEN TRUE
    ELSE IF b = <<>> THEN FALSE
    ELSE IF Head(a) # Head(b) THEN Head(a) < Head(b)
    ELSE TextLeq(Tail(a), Tail(b))

\* A ready query without the scheduled_at condition.
ReadyRows_IgnoreSchedule(s, current_time) ==
    {id \in DOMAIN s : s[id].state = "pending"}

\* The rows the WHERE clause of Storage.get_ready_jobs selects.
ReadyRows(s, current_time) ==
    {id \in DOMAIN s :
        /\ s[id].state = "pending"
        /\ (s[id].scheduled_at = NULL
              \/ TextLeq(s[id].scheduled_at, current_time))}

\* The sequences without repetition of length n over the set S.
SeqsOf(S, n) ==
    {q \in [1 .. n -> S] : \A i, j \in 1 .. n : i # j => q[i] # q[j]}

Min(a, b) == IF a <= b THEN a ELSE b

\* Storage.get_ready_jobs(limit): the results the query can return, each
\* the first `limit` selected rows in ORDER BY created_at (rows with equal
\* created_at come in either order).
get_ready_jobs(s, current_time, limit) ==
    LET R == ReadyRows(s, current_time)
        n == Min(limit, Cardinality(R))
    IN  {q \in SeqsOf(R, n) :
            /\ \A i \in 1 .. n - 1 :
                  TextLeq(s[q[i]].created_at, s[q[i + 1]].created_at)
            /\ \A i \in 1 .. n, r \in R :
                  (\A j \in 1 .. n : q[j] # r)
                     => TextLeq(s[q[i]].created_at, s[r].created_at)}

\* The scheduled_at values of the enqueue inputs of ReadySpec.
ScheduledAtTexts == {NULL} \cup {isoformat(t) : t \in 0 .. MaxTextTime}

ReadyInit ==
    /\ clock = 0
    /\ store = <<>>
    /\ worker = [w \in Workers |-> WorkerInit]
    /\ client = [c \in Clients |-> ClientInit]
    /\ execs = [id \in JobIds |-> 0]
    /\ pidfile = Workers

ReadyTick ==
    /\ clock < MaxTextTime
    /\ clock' = clock + 1
    /\ UNCHANGED <<store, worker, client, execs, pidfile>>

\* JobManager.enqueue of a new job, with the timestamps as texts.
ReadyEnqueue(id, scheduled_at) ==
    /\ ~HasJob(store, id)
    /\ store' = create_job(store,
                    NewJob(id, "cmd", NoRetries, scheduled_at,
                           get_timestamp(clock)))
    /\ UNCHANGED <<clock, worker, client, execs, pidfile>>

\* Worker.run: get_ready_jobs(limit=1), then ready_jobs[0] is the job to
\* claim.
ReadyPoll(w) ==
    /\ worker[w].pc = "poll"
    /\ \E q \in get_ready_jobs(store, get_timestamp(clock), 1) :
          /\ q # <<>>
          /\ worker' = [worker EXCEPT ![w].pc = "claim", ![w].job = q[1]]
    /\ UNCHANGED <<clock, store, client, execs, pidfile>>

\* Worker.run: acquire_job_lock on the job polled; the worker then leaves
\* the job in state processing.
ReadyClaim(w) ==
    /\ worker[w].pc = "claim"
    /\ store' = acquire_job_lock(store, worker[w].job, w, get_timestamp(clock))
    /\ worker' = [worker EXCEPT ![w].pc = "poll", ![w].job = None]
    /\ UNCHANGED <<clock, client, execs, pidfile>>

ReadyNext ==
    \/ ReadyTick
    \/ \E id \in ReadyJobIds, sa \in ScheduledAtTexts : ReadyEnqueue(id, sa)
    \/ \E w \in ReadyWorkers : ReadyPoll(w)
    \/ \E w \in ReadyWorkers : ReadyClaim(w)

ReadySpec == ReadyInit /\ [][ReadyNext]_vars

\* ============================================================== ApiSpec
\* One caller applies the operations of JobManager and Storage one after
\* the other, each call complete before the next starts.  The caller's
\* record keeps the last call, its job id and its result, whether that
\* call repeated the call before it, and the number of mark_failed calls
\* made on the job since a successful retry_from_dlq (NotCounting when
\* another call came in between).

ApiClients == {"c1"}

\* The lock_ids the caller claims and releases with.
ApiLockIds == {"w1", "w2"}

NotCounting == -1

ApiClientInit ==
    [pc |-> "idle", id |-> None, last |-> None, result |-> None,
     repeat |-> FALSE, fails |-> NotCounting, lock_id |-> None]

\* The caller's record after the call `op` on `id` with result `result`.
Called(c, op, id, result, fails) ==
    [pc |-> "idle", id |-> id, last |-> op, result |-> result,
     repeat |-> (client[c].last = op /\ client[c].id = id),
     fails |-> fails, lock_id |-> None]

ApiInit ==
    /\ clock = 0
    /\ store = <<>>
    /\ worker = [w \in Workers |-> WorkerInit]
    /\ client = [c \in Clients |->
                    IF c \in ApiClients THEN ApiClientInit ELSE ClientInit]
    /\ execs = [id \in JobIds |-> 0]
    /\ pidfile = Workers

\* JobManager.retry_from_dlq(id).
ApiRetry(c, id) ==
    /\ store' = retry_from_dlq(store, id, clock)
    /\ client' = [client EXCEPT ![c] =
                     Called(c, "retry_from_dlq", id, RetryCheck(store, id),
                            IF RetryCheck(store, id) = "ok" THEN 0
                            ELSE NotCounting)]
    /\ UNCHANGED <<clock, worker, execs, pidfile>>

\* JobManager.mark_failed(id, err).
ApiMarkFailed(c, id, err) ==
    /\ HasJob(store, id) => store[id].attempts < MaxAttempts
    /\ store' = mark_failed(store, id, err, clock)
    /\ client' = [client EXCEPT ![c] =
                     Called(c, "mark_failed", id, None,
                            IF client[c].id = id /\ client[c].fails # NotCounting
                            THEN client[c].fails + 1 ELSE NotCounting)]
    /\ UNCHANGED <<clock, worker, execs, pidfile>>

\* JobManager.mark_completed(id).
ApiMarkCompleted(c, id) ==
    /\ store' = mark_completed(store, id, clock)
    /\ client' = [client EXCEPT ![c] =
                     Called(c, "mark_completed", id, None, NotCounting)]
    /\ UNCHANGED <<clock, worker, execs, pidfile>>

\* Storage.acquire_job_lock(id, lock_id): the result is the row count.
ApiAcquire(c, id, lock_id) ==
    /\ store' = acquire_job_lock(store, id, lock_id, clock)
    /\ client' = [client EXCEPT ![c] =
                     [Called(c, "acquire_job_lock", id, CanAcquire(store, id),
                             NotCounting) EXCEPT !.lock_id = lock_id]]
    /\ UNCHANGED <<clock, worker, execs, pidfile>>

\* Storage.release_job_lock(id, lock_id).
ApiRelease(c, id, lock_id) ==
    /\ store' = release_job_lock(store, id, lock_id, clock)
    /\ client' = [client EXCEPT ![c] =
                     [Called(c, "release_job_lock", id, None, NotCounting)
                         EXCEPT !.lock_id = lock_id]]
    /\ UNCHANGED <<clock, worker, execs, pidfile>>

ApiNext ==
    \/ Tick
    \/ \E id \in JobIds \cup {None}, command \in Commands \cup {None},
          mr \in MaxRetriesInputs, sa \in ScheduledAtInputs :
          Enqueue(id, command, mr, sa)
    \/ \E c \in ApiClients, id \in JobIds : ApiRetry(c, id)
    \/ \E c \in ApiClients, id \in JobIds, err \in Errors :
          ApiMarkFailed(c, id, err)
    \/ \E c \in ApiClients, id \in JobIds : ApiMarkCompleted(c, id)
    \/ \E c \in ApiClients, id \in JobIds, l \in ApiLockIds :
          ApiAcquire(c, id, l)
    \/ \E c \in ApiClients, id \in JobIds, l \in ApiLockIds :
          ApiRelease(c, id, l)

ApiSpec == ApiInit /\ [][ApiNext]_vars

\* ========================================================== EnqueueSpec
\* Enqueue as the two storage calls it makes, by two clients side by side,
\* with the result of each call kept in the client's record; one worker
\* moves the jobs through their states meanwhile.

EnqueueWorkers == {"w1"}

EnqueueClientInit ==
    [pc |-> "idle", id |-> None, command |-> None, max_retries |-> NoRetries,
     scheduled_at |-> NoTime, result |-> None]

\* The client's record when enqueue returns or raises.
Returned(id, result) == [EnqueueClientInit EXCEPT !.id = id, !.result = result]

\* The validation and the duplicate check of JobManager.enqueue, on the row
\* storage.get_job(id) returns.
EnqueueCheck(s, id, command) ==
    IF id = None \/ command = None THEN "InvalidInput"
    ELSE IF HasJob(s, id) THEN "Duplicate"
    ELSE "ok"

EnqueueInit ==
    /\ clock = 0
    /\ store = <<>>
    /\ worker = [w \in Workers |-> WorkerInit]
    /\ client = [c \in Clients |-> EnqueueClientInit]
    /\ execs = [id \in JobIds |-> 0]
    /\ pidfile = Workers

\* JobManager.enqueue up to the duplicate check: a ValueError is raised for
\* a missing field or an existing id.
EnqueueGet(c, id, command, max_retries, scheduled_at) ==
    /\ client[c].pc = "idle"
    /\ client' = [client EXCEPT ![c] =
          IF EnqueueCheck(store, id, command) = "ok"
          THEN [pc |-> "enqueue_create", id |-> id, command |-> command,
                max_retries |-> max_retries, scheduled_at |-> scheduled_at,
                result |-> None]
          ELSE Returned(id, EnqueueCheck(store, id, command))]
    /\ UNCHANGED <<clock, store, worker, execs, pidfile>>

\* JobManager.enqueue from get_timestamp() to storage.create_job: the
\* INSERT raises sqlite3.IntegrityError when a row with this id appeared
\* after the duplicate check.
EnqueueCreate(c) ==
    /\ client[c].pc = "enqueue_create"
    /\ store' = create_job(store,
                    NewJob(client[c].id, client[c].command,
                           client[c].max_retries, client[c].scheduled_at,
                           clock))
    /\ client' = [client EXCEPT ![c] =
          Returned(client[c].id,
                   IF HasJob(store, client[c].id) THEN "IntegrityError"
                   ELSE "ok")]
    /\ UNCHANGED <<clock, worker, execs, pidfile>>

EnqueueNext ==
    \/ Tick
    \/ \E c \in Clients, id \in JobIds \cup {None},
          command \in Commands \cup {None},
          mr \in MaxRetriesInputs, sa \in ScheduledAtInputs :
          EnqueueGet(c, id, command, mr, sa)
    \/ \E c \in Clients : EnqueueCreate(c)
    \/ \E w \in EnqueueWorkers : Poll(w)
    \/ \E w \in EnqueueWorkers : Claim(w)
    \/ \E w \in EnqueueWorkers : Fetch(w)
    \/ \E w \in EnqueueWorkers : MarkCompleted(w)
    \/ \E w \in EnqueueWorkers, err \in Errors : MarkFailedGet(w, err)
    \/ \E w \in EnqueueWorkers : MarkFailedUpdate(w)
    \/ \E w \in EnqueueWorkers : Release(w)

EnqueueSpec == EnqueueInit /\ [][EnqueueNext]_vars

\* =========================================================== StatusSpec
\* JobManager.get_status as the five list calls it makes, one per state in
\* the order of VALID_STATES, while a worker moves the jobs.  The caller
\* first takes list() with no filter and keeps the number of rows.

StatusClients == {"c1"}

StatusWorkers == {"w1"}

\* JobManager.VALID_STATES, in its order.
StatusOrder == <<"pending", "processing", "completed", "failed", "dead">>

StatusClientInit ==
    [pc |-> "idle", listed |-> 0, i |-> 1,
     status |-> [state \in VALID_STATES |-> 0]]

StatusInit ==
    /\ clock = 0
    /\ store = <<>>
    /\ worker = [w \in Workers |-> WorkerInit]
    /\ client = [c \in Clients |->
                    IF c \in StatusClients THEN StatusClientInit ELSE ClientInit]
    /\ execs = [id \in JobIds |-> 0]
    /\ pidfile = Workers

\* list() with no filter, then get_status up to its loop:
\* status = {state: 0 for state in VALID_STATES}.
StatusStart(c) ==
    /\ client[c].pc \in {"idle", "done"}
    /\ client' = [client EXCEPT ![c] =
                     [StatusClientInit EXCEPT
                         !.pc = "status",
                         !.listed = Cardinality(DOMAIN store)]]
    /\ UNCHANGED <<clock, store, worker, execs, pidfile>>

\* get_status, one pass of its loop:
\* status[state] = len(storage.list_jobs(state)).
StatusRead(c) ==
    /\ client[c].pc = "status"
    /\ LET state == StatusOrder[client[c].i] IN
       client' = [client EXCEPT
                     ![c].status[state] = Cardinality(list_jobs(store, state)),
                     ![c].i = IF client[c].i < Len(StatusOrder)
                              THEN client[c].i + 1 ELSE 1,
                     ![c].pc = IF client[c].i < Len(StatusOrder)
                               THEN "status" ELSE "done"]
    /\ UNCHANGED <<clock, store, worker, execs, pidfile>>

StatusNext ==
    \/ Tick
    \/ \E id \in JobIds \cup {None}, command \in Commands \cup {None},
          mr \in MaxRetriesInputs, sa \in ScheduledAtInputs :
          Enqueue(id, command, mr, sa)
    \/ \E c \in StatusClients : StatusStart(c)
    \/ \E c \in StatusClients : StatusRead(c)
    \/ \E w \in StatusWorkers : Poll(w)
    \/ \E w \in StatusWorkers : Claim(w)
    \/ \E w \in StatusWorkers : Fetch(w)
    \/ \E w \in StatusWorkers : MarkCompleted(w)
    \/ \E w \in StatusWorkers, err \in Errors : MarkFailedGet(w, err)
    \/ \E w \in StatusWorkers : MarkFailedUpdate(w)
    \/ \E w \in StatusWorkers : Release(w)

StatusSpec == StatusInit /\ [][StatusNext]_vars

\* ============================================================ StampSpec
\* retry_from_dlq with the call of storage.update_job in its two steps:
\* update_job reads get_timestamp() in the calling process, then runs the
\* UPDATE; other processes can write in between.

StampWorkers == {"w1"}

\* Storage.update_job, first statement: updates['updated_at'] = get_timestamp().
RetryStamp(c) ==
    /\ client[c].pc = "retry_update"
    /\ client' = [client EXCEPT ![c] =
                     [pc |-> "retry_write", id |-> client[c].id, now |-> clock]]
    /\ UNCHANGED <<clock, store, worker, execs, pidfile>>

\* Storage.update_job, the UPDATE, with the timestamp read before.
RetryWrite(c) ==
    /\ client[c].pc = "retry_write"
    /\ store' = update_job(store, client[c].id, RetryUpdates, client[c].now)
    /\ client' = [client EXCEPT ![c] = ClientInit]
    /\ UNCHANGED <<clock, worker, execs, pidfile>>

StampNext ==
    \/ Tick
    \/ \E id \in JobIds \cup {None}, command \in Commands \cup {None},
          mr \in MaxRetriesInputs, sa \in ScheduledAtInputs :
          Enqueue(id, command, mr, sa)
    \/ \E c \in Clients, id \in JobIds : RetryGet(c, id)
    \/ \E c \in Clients : RetryStamp(c)
    \/ \E c \in Clients : RetryWrite(c)
    \/ \E w \in StampWorkers : Poll(w)
    \/ \E w \in StampWorkers : Claim(w)
    \/ \E w \in StampWorkers : Fetch(w)
    \/ \E w \in StampWorkers : MarkCompleted(w)
    \/ \E w \in StampWorkers, err \in Errors : MarkFailedGet(w, err)
    \/ \E w \in StampWorkers : MarkFailedUpdate(w)
    \/ \E w \in StampWorkers : Release(w)

StampSpec == Init /\ [][StampNext]_vars

\* ============================================================= StopSpec
\* WorkerManager.stop_workers, run by the client c1: SIGTERM to every
\* worker, time.sleep(2), SIGKILL to every worker.  The client's record
\* keeps the time of the SIGTERM and the workers that were executing a
\* command at that time.  The client c2 retries dead jobs meanwhile.

\* time.sleep(2) between the SIGTERM and the SIGKILL, in seconds.
GraceSeconds == 2

StopClients == {"c1"}

StopRetryClients == {"c2"}

\* A worker process after SIGKILL: it takes no further step and its
\* memory is gone.
Killed == [WorkerInit EXCEPT !.pc = "killed", !.should_stop = TRUE]

\* stop_workers, first loop: with no pid in the file it warns and returns;
\* otherwise os.kill(pid, SIGTERM) for every pid loaded from the file; the
\* handler of a running worker sets should_stop.
StopTerm(c) ==
    /\ client[c].pc \in {"idle", "start_done", "stop_done"}
    /\ IF pidfile = {}
       THEN UNCHANGED <<worker, client>>
       ELSE /\ worker' = [w \in Workers |->
                            IF w \in pidfile /\ Live(w)
                            THEN [worker[w] EXCEPT !.should_stop = TRUE]
                            ELSE worker[w]]
            /\ client' = [client EXCEPT ![c] =
                             [pc |-> "stop_sleep", id |-> None,
                              sent_at |-> clock, pids |-> pidfile,
                              busy |-> {w \in pidfile : worker[w].pc = "exec"}]]
    /\ UNCHANGED <<clock, store, execs, pidfile>>

\* stop_workers after time.sleep(2), second loop: os.kill(pid, SIGKILL)
\* for every pid loaded; a worker that has exited is not found.  The pid
\* file is removed.
StopKill(c) ==
    /\ client[c].pc = "stop_sleep"
    /\ clock >= client[c].sent_at + GraceSeconds
    /\ worker' = [w \in Workers |->
                    IF w \in client[c].pids /\ Live(w) THEN Killed
                    ELSE worker[w]]
    /\ client' = [client EXCEPT ![c].pc = "stop_done"]
    /\ pidfile' = {}
    /\ UNCHANGED <<clock, store, execs>>

StopNext ==
    \/ Tick
    \/ \E id \in JobIds \cup {None}, command \in Commands \cup {None},
          mr \in MaxRetriesInputs, sa \in ScheduledAtInputs :
          Enqueue(id, command, mr, sa)
    \/ \E c \in StopRetryClients, id \in JobIds : RetryGet(c, id)
    \/ \E c \in StopRetryClients : RetryUpdate(c)
    \/ \E w \in Workers : Poll(w)
    \/ \E w \in Workers : Claim(w)
    \/ \E w \in Workers : Fetch(w)
    \/ \E w \in Workers : MarkCompleted(w)
    \/ \E w \in Workers, err \in Errors : MarkFailedGet(w, err)
    \/ \E w \in Workers : MarkFailedUpdate(w)
    \/ \E w \in Workers : Release(w)
    \/ \E w \in Workers : Exit(w)
    \/ \E c \in StopClients : StopTerm(c)
    \/ \E c \in StopClients : StopKill(c)

StopSpec == Init /\ [][StopNext]_vars

\* ============================================================= LiveSpec
\* The queue under fair scheduling.  The worker w1 keeps running, the
\* worker w2 may be signalled and stop, one client retries dead jobs.  The
\* clock advances for ever: it counts up to MaxClock and from then on a
\* tick moves every timestamp of the table one second into the past
\* instead, which keeps each timestamp's distance to the present (a
\* timestamp more than MaxClock seconds old is kept as that old).

LiveRetryClients == {"c1"}

\* The workers that can be signalled in LiveSpec.
LiveStoppable == {"w2"}

\* A timestamp as it is one second later, seen from the present.
Older(t) == IF t = NoTime \/ t = 0 THEN t ELSE t - 1

\* The table one second later, seen from the present.
Shift(s) ==
    [id \in DOMAIN s |->
        [s[id] EXCEPT !.created_at = Older(@), !.updated_at = Older(@),
                      !.scheduled_at = Older(@)]]

\* datetime.utcnow() advances by a second.
LiveTick ==
    /\ IF clock < MaxClock
       THEN clock' = clock + 1 /\ UNCHANGED store
       ELSE clock' = clock /\ store' = Shift(store)
    /\ UNCHANGED <<worker, client, execs, pidfile>>

LiveNext ==
    \/ LiveTick
    \/ \E id \in JobIds \cup {None}, command \in Commands \cup {None},
          mr \in MaxRetriesInputs, sa \in ScheduledAtInputs :
          Enqueue(id, command, mr, sa)
    \/ \E c \in LiveRetryClients, id \in JobIds : RetryGet(c, id)
    \/ \E c \in LiveRetryClients : RetryUpdate(c)
    \/ \E w \in Workers : Poll(w)
    \/ \E w \in Workers : Claim(w)
    \/ \E w \in Workers : Fetch(w)
    \/ \E w \in Workers : MarkCompleted(w)
    \/ \E w \in Workers, err \in Errors : MarkFailedGet(w, err)
    \/ \E w \in Workers : MarkFailedUpdate(w)
    \/ \E w \in Workers : Release(w)
    \/ \E w \in LiveStoppable : Signal(w)
    \/ \E w \in LiveStoppable : Exit(w)

\* Weak fairness on every step of a worker (a command that has started
\* finishes, with success or failure) and on the clock.
LiveFairness ==
    /\ WF_vars(LiveTick)
    /\ \A w \in Workers :
          /\ WF_vars(Poll(w))
          /\ WF_vars(Claim(w))
          /\ WF_vars(Fetch(w))
          /\ WF_vars(MarkCompleted(w) \/ \E err \in Errors : MarkFailedGet(w, err))
          /\ WF_vars(MarkFailedUpdate(w))
          /\ WF_vars(Release(w))

LiveSpec == Init /\ [][LiveNext]_vars /\ LiveFairness

\* ============================================================ CrashSpec
\* The queue of Spec with worker processes that can die at any point of
\* their loop (SIGKILL, a crash of the interpreter, a power cut).

\* The worker process w dies; nothing of Worker.run runs after that.
Crash(w) ==
    /\ Live(w)
    /\ worker' = [worker EXCEPT ![w] = Killed]
    /\ UNCHANGED <<clock, store, client, execs, pidfile>>

CrashNext ==
    \/ Next
    \/ \E w \in Workers : Crash(w)

CrashSpec == Init /\ [][CrashNext]_vars

\* ======================================================= SupervisorSpec
\* WorkerManager.start_workers and stop_workers, called one after the
\* other from the command line, over worker processes that are signalled,
\* exit and die on their own as well.  A worker names a PID; no worker
\* runs at the start and the pid file is absent (read as no PID).  The
\* workers find no job here.

SupervisorClients == {"c1"}

\* The counts passed to start (at most one worker per PID of the model).
StartCounts == 0 .. Cardinality(Workers)

\* A PID with no process.
NoProcess == [WorkerInit EXCEPT !.pc = "none"]

\* A check that reports running workers only when every recorded PID is
\* live.
are_workers_running_AllLive == pidfile # {} /\ \A w \in pidfile : Live(w)

\* WorkerManager._are_workers_running: os.kill(pid, 0) finds one of the
\* PIDs of the pid file.
are_workers_running == \E w \in pidfile : Live(w)

\* The calls a client has made, modulo 2.
CallParity(c) == IF "seq" \in DOMAIN client[c] THEN client[c].seq ELSE 0

\* The client's record when start returns or raises; `found` are the
\* recorded PIDs that were live when it was called.
Started(c, count, result) ==
    [pc |-> "start_done", id |-> None, count |-> count, result |-> result,
     found |-> {w \in pidfile : Live(w)}, seq |-> 1 - CallParity(c)]

SupervisorInit ==
    /\ clock = 0
    /\ store = <<>>
    /\ worker = [w \in Workers |-> NoProcess]
    /\ client = [c \in Clients |-> ClientInit]
    /\ execs = [id \in JobIds |-> 0]
    /\ pidfile = {}

\* WorkerManager.start_workers(count): RuntimeError when workers are
\* running; otherwise `count` processes are started, on PIDs that are free,
\* and their PIDs replace the contents of the pid file.
start_workers(c, count) ==
    /\ client[c].pc \in {"idle", "start_done", "stop_done"}
    /\ IF are_workers_running
       THEN /\ client' = [client EXCEPT ![c] = Started(c, count, "AlreadyRunning")]
            /\ UNCHANGED <<worker, pidfile>>
       ELSE \E S \in SUBSET {w \in Workers : ~Live(w)} :
               /\ Cardinality(S) = count
               /\ worker' = [w \in Workers |->
                               IF w \in S THEN WorkerInit ELSE worker[w]]
               /\ pidfile' = S
               /\ client' = [client EXCEPT ![c] = Started(c, count, "ok")]
    /\ UNCHANGED <<clock, store, execs>>

SupervisorNext ==
    \/ Tick
    \/ \E c \in SupervisorClients, count \in StartCounts : start_workers(c, count)
    \/ \E c \in SupervisorClients : StopTerm(c)
    \/ \E c \in SupervisorClients : StopKill(c)
    \/ \E w \in Workers : Signal(w)
    \/ \E w \in Workers : Exit(w)
    \/ \E w \in Workers : Crash(w)

SupervisorSpec == SupervisorInit /\ [][SupervisorNext]_vars

\* ================================================================ claims

\* The steps of a worker, read off its position.
ClaimReturns(w)    == worker[w].pc = "claim" /\ worker'[w].pc # "claim"
ClaimWon(w)        == worker[w].pc = "claim" /\ worker'[w].pc = "fetch"
CommandSucceeds(w) == worker[w].pc = "exec" /\ worker'[w].pc = "release"
FailureRead(w)     == worker[w].pc = "exec" /\ worker'[w].pc = "mf_update"
FailureWritten(w)  == worker[w].pc = "mf_update" /\ worker'[w].pc = "release"
RetryWritten(c)    == client[c].pc = "retry_update" /\ client'[c].pc = "idle"

\* The worker is running the command of job id (Worker._execute_command).
Executing(w, id) == worker[w].pc = "exec" /\ worker[w].job = id

\* C1: a try_claim on a job returns true exactly when the job is pending
\* with lock_id absent; the winning call sets state = processing and
\* lock_id = its claimant and leaves the job unclaimable for every other
\* claimant, and a call that returns false leaves the table untouched.  So
\* of any number of claimants of one pending job exactly one wins.
C1_SingleWinner ==
    [][\A w \in Workers :
          ClaimReturns(w) =>
             LET id == worker[w].job
                 free == /\ id \in DOMAIN store
                         /\ store[id].state = "pending"
                         /\ store[id].lock_id = None
             IN  /\ ClaimWon(w) <=> free
                 /\ ClaimWon(w) =>
                       /\ store' = [store EXCEPT ![id].state = "processing",
                                                 ![id].lock_id = w,
                                                 ![id].updated_at = clock]
                       /\ ~(store'[id].state = "pending"
                            /\ store'[id].lock_id = None)
                 /\ ~ClaimWon(w) => store' = store]_vars

\* C1 witness: two claimants of the same job, one has won and the other is
\* about to call try_claim.
C1_Witness ==
    \E w1, w2 \in Workers :
        /\ w1 # w2
        /\ worker[w1].pc = "fetch"
        /\ worker[w2].pc = "claim"
        /\ worker[w2].job = worker[w1].job
        /\ store[worker[w1].job].lock_id = w1

\* C2: at most one worker executes a given job at any time, and a worker
\* that is about to write the job's outcome (mark_completed after the
\* command, or either half of mark_failed) is the job's current lock_id.
C2_OneExecutorOwnerWrites ==
    \A id \in DOMAIN store :
        /\ Cardinality({w \in Workers : Executing(w, id)}) <= 1
        /\ \A w \in Workers :
              (worker[w].pc \in {"exec", "mf_update"} /\ worker[w].job = id)
                 => store[id].lock_id = w

\* C3: for every job, lock_id is present if and only if state = processing.
C3_LockIffProcessing ==
    \A id \in DOMAIN store :
        (store[id].lock_id # None) <=> (store[id].state = "processing")

\* C4: every change of a job's state is an edge of the lifecycle machine,
\* made by the operation of that edge; a job is created pending, never
\* enters failed and never leaves completed.
C4_LifecycleEdges ==
    [][\A id \in JobIds :
          /\ (id \notin DOMAIN store /\ id \in DOMAIN store')
                => store'[id].state = "pending"
          /\ (id \in DOMAIN store) =>
                /\ id \in DOMAIN store'
                /\ store'[id].state # "failed"
                /\ store[id].state = "completed" => store'[id].state = "completed"
                /\ store'[id].state # store[id].state =>
                      \/ /\ store[id].state = "pending"
                         /\ store'[id].state = "processing"
                         /\ \E w \in Workers : ClaimWon(w) /\ worker[w].job = id
                      \/ /\ store[id].state = "processing"
                         /\ store'[id].state = "completed"
                         /\ \E w \in Workers :
                               CommandSucceeds(w) /\ worker[w].job = id
                      \/ /\ store[id].state = "processing"
                         /\ store'[id].state \in {"pending", "dead"}
                         /\ \E w \in Workers :
                               FailureWritten(w) /\ worker[w].job = id
                      \/ /\ store[id].state = "dead"
                         /\ store'[id].state = "pending"
                         /\ \E c \in Clients :
                               RetryWritten(c) /\ client[c].id = id]_vars

\* C5: every job has 0 <= attempts <= max_retries.
C5_AttemptsWithinMax ==
    \A id \in DOMAIN store :
        0 <= store[id].attempts /\ store[id].attempts <= store[id].max_retries

\* C6: every job in state dead has attempts = max_retries.
C6_DeadAtMax ==
    \A id \in DOMAIN store :
        store[id].state = "dead" => store[id].attempts = store[id].max_retries

\* C7: every job in state pending has lock_id absent.
C7_PendingUnlocked ==
    \A id \in DOMAIN store :
        store[id].state = "pending" => store[id].lock_id = None

\* C7 witness: a job that was claimed, failed and is pending again, while
\* the worker that failed it has not yet called release.
C7_Witness ==
    \E w \in Workers :
        /\ worker[w].pc = "release"
        /\ worker[w].job \in DOMAIN store
        /\ store[worker[w].job].state = "pending"
        /\ store[worker[w].job].attempts >= 1

\* C8: mark_failed(id, err) reads attempts and takes n = attempts + 1; it
\* then writes attempts = n, error_message = err and lock_id absent, with
\* state = dead if n >= max_retries and state = pending otherwise.
C8_MarkFailed ==
    [][\A w \in Workers :
          /\ FailureRead(w) =>
                worker'[w].attempts = store[worker[w].job].attempts + 1
          /\ FailureWritten(w) =>
                LET id == worker[w].job
                    n == worker[w].attempts
                IN  /\ store'[id].attempts = n
                    /\ store'[id].error_message = worker[w].err
                    /\ store'[id].error_message \in Errors
                    /\ store'[id].lock_id = None
                    /\ store'[id].state =
                          IF n >= store[id].max_retries THEN "dead" ELSE "pending"
                    /\ n = store[id].max_retries => store'[id].state = "dead"]_vars

\* C8 witness: a failure with attempts + 1 = max_retries has just been
\* written and the job is dead.
C8_Witness ==
    \E w \in Workers :
        /\ worker[w].pc = "release"
        /\ worker[w].job \in DOMAIN store
        /\ store[worker[w].job].state = "dead"
        /\ store[worker[w].job].max_retries >= 1
        /\ store[worker[w].job].attempts = store[worker[w].job].max_retries
        /\ store[worker[w].job].error_message \in Errors

\* C9: when mark_failed reschedules a job it writes
\* scheduled_at = now + backoff_base ^ n, with n >= 1 the attempts count it
\* writes; for backoff_base > 1 that delay exceeds the delay of attempt n - 1.
C9_Backoff ==
    [][\A w \in Workers :
          (FailureWritten(w) /\ store'[worker[w].job].state = "pending") =>
             LET id == worker[w].job
                 n == store'[id].attempts
             IN  /\ n >= 1
                 /\ n = worker[w].attempts
                 /\ store'[id].scheduled_at = clock + Pow(BackoffBase, n)
                 /\ BackoffBase > 1 =>
                       Pow(BackoffBase, n) > Pow(BackoffBase, n - 1)
                 /\ n = 1 => store'[id].scheduled_at = clock + BackoffBase]_vars

\* C9 witness: a job rescheduled after its second failed attempt, with the
\* delay backoff_base ^ 2.
C9_Witness ==
    \E id \in DOMAIN store :
        /\ store[id].state = "pending"
        /\ store[id].attempts = 2
        /\ store[id].scheduled_at = store[id].updated_at + BackoffBase * BackoffBase

\* C10: a job whose only execution so far succeeded is completed with
\* attempts = 1.
C10_HappyPathAttempts ==
    \A id \in DOMAIN store :
        (store[id].state = "completed" /\ execs[id] = 1) => store[id].attempts = 1

\* The pending rows that are due at the time `now`, by the times their
\* texts denote.
Due(now) ==
    {id \in DOMAIN store :
        /\ store[id].state = "pending"
        /\ (store[id].scheduled_at = NULL
              \/ parse_timestamp(store[id].scheduled_at) <= now)}

\* C11: ready(limit) returns min(limit, number of due jobs) distinct due
\* jobs, in ascending created_at order, none of them created after a due
\* job that is left out; a pending job scheduled strictly in the future is
\* in no result of ready and is in list('pending').
C11_ReadyQuery ==
    \A limit \in 0 .. MaxLimit :
        /\ get_ready_jobs(store, get_timestamp(clock), limit) # {}
        /\ \A q \in get_ready_jobs(store, get_timestamp(clock), limit) :
              /\ Len(q) = Min(limit, Cardinality(Due(clock)))
              /\ \A i \in 1 .. Len(q) : q[i] \in Due(clock)
              /\ \A i, j \in 1 .. Len(q) :
                    /\ i # j => q[i] # q[j]
                    /\ i < j => parse_timestamp(store[q[i]].created_at)
                                   <= parse_timestamp(store[q[j]].created_at)
              /\ \A i \in 1 .. Len(q), r \in Due(clock) :
                    (\A j \in 1 .. Len(q) : q[j] # r)
                       => parse_timestamp(store[q[i]].created_at)
                             <= parse_timestamp(store[r].created_at)
              /\ \A id \in DOMAIN store :
                    (/\ store[id].state = "pending"
                     /\ store[id].scheduled_at # NULL
                     /\ parse_timestamp(store[id].scheduled_at) > clock)
                       => /\ \A i \in 1 .. Len(q) : q[i] # id
                          /\ id \in list_jobs(store, "pending")

\* C11 witness: the poller has taken the older of two pending jobs at a
\* time written with a fraction, the other job is scheduled for the next
\* full second and is not ready.
C11_Witness ==
    \E w \in ReadyWorkers, id \in DOMAIN store :
        /\ worker[w].pc = "claim"
        /\ worker[w].job \in DOMAIN store
        /\ worker[w].job # id
        /\ clock % 2 = 1
        /\ store[id].state = "pending"
        /\ store[id].scheduled_at = isoformat(clock + 1)
        /\ get_ready_jobs(store, get_timestamp(clock), MaxLimit) = {<<worker[w].job>>}

\* C12: the write of retry_from_dlq(id) leaves the job pending with
\* attempts 0 and with scheduled_at, error_message and lock_id absent, and
\* leaves id, command, max_retries and created_at as they were.
C12_RetryFromDlq ==
    [][\A c \in Clients :
          RetryWritten(c) =>
             LET id == client[c].id IN
             /\ store'[id].state = "pending"
             /\ store'[id].attempts = 0
             /\ store'[id].scheduled_at = NoTime
             /\ store'[id].error_message = None
             /\ store'[id].lock_id = None
             /\ store'[id].id = store[id].id
             /\ store'[id].command = store[id].command
             /\ store'[id].max_retries = store[id].max_retries
             /\ store'[id].created_at = store[id].created_at]_vars

\* C12 witness: a job that was executed and failed its way to dead is
\* pending again with a clean record, a client having retried it.
C12_Witness ==
    \E id \in DOMAIN store :
        /\ execs[id] >= 1
        /\ store[id].state = "pending"
        /\ store[id].attempts = 0
        /\ store[id].error_message = None
        /\ store[id].scheduled_at = NoTime
        /\ store[id].lock_id = None
        /\ store[id].updated_at > store[id].created_at

\* The step is a call of `op` by the caller c.
ApiCall(c, op) == client'[c] # client[c] /\ client'[c].last = op

\* C13: retry_from_dlq(id) on an absent job fails with NotFound, on a job
\* in any state other than dead it fails with InvalidState, and in both
\* cases the store is left as it was.
C13_RetryRejected ==
    [][\A c \in ApiClients :
          ApiCall(c, "retry_from_dlq") =>
             LET id == client'[c].id IN
             /\ ~HasJob(store, id) =>
                   client'[c].result = "NotFound" /\ store' = store
             /\ (HasJob(store, id) /\ store[id].state # "dead") =>
                   client'[c].result = "InvalidState" /\ store' = store]_vars

\* C13 witness: a retry of a completed job was rejected at a later time
\* than the job's last write.
C13_Witness ==
    \E c \in ApiClients :
        /\ client[c].last = "retry_from_dlq"
        /\ client[c].result = "InvalidState"
        /\ HasJob(store, client[c].id)
        /\ store[client[c].id].state = "completed"
        /\ store[client[c].id].updated_at < clock

\* C14: after a successful retry_from_dlq(id) followed by k calls of
\* mark_failed(id, err) and no other call, a job with max_retries = m >= 1
\* is pending with attempts = k while k < m, and dead with attempts = m
\* when k = m.
C14_RetryThenFail ==
    \A c \in ApiClients :
        (client[c].fails # NotCounting /\ HasJob(store, client[c].id)) =>
            LET job == store[client[c].id]
                k == client[c].fails
            IN  job.max_retries >= 1 =>
                   /\ k < job.max_retries =>
                         job.state = "pending" /\ job.attempts = k
                   /\ k = job.max_retries =>
                         job.state = "dead" /\ job.attempts = job.max_retries

\* C14 witness: a retried job with the default max_retries is dead again
\* after exactly that many mark_failed calls.
C14_Witness ==
    \E c \in ApiClients :
        /\ client[c].fails = DefaultMaxRetries
        /\ store[client[c].id].max_retries = DefaultMaxRetries
        /\ store[client[c].id].state = "dead"
        /\ store[client[c].id].attempts = DefaultMaxRetries

\* The step is a mark_completed(id) that directly follows a
\* mark_completed(id) of the same existing job.
SecondMarkCompleted(c) ==
    /\ ApiCall(c, "mark_completed")
    /\ client[c].last = "mark_completed"
    /\ client'[c].id = client[c].id
    /\ HasJob(store, client[c].id)
    /\ store[client[c].id].state = "completed"

\* C16 as stated: a second mark_completed(id) leaves the record identical,
\* in every field, to the record after the first call.
C16_IdempotentEveryField ==
    [][\A c \in ApiClients :
          SecondMarkCompleted(c) =>
             store'[client[c].id] = store[client[c].id]]_vars

\* C16, amended: a second mark_completed(id) changes no field of the
\* record other than updated_at, which it sets to the time of the call.
C16_IdempotentButUpdatedAt ==
    [][\A c \in ApiClients :
          SecondMarkCompleted(c) =>
             /\ store'[client[c].id] =
                   [store[client[c].id] EXCEPT !.updated_at = clock]
             /\ \A id \in DOMAIN store :
                   id # client[c].id => store'[id] = store[id]]_vars

\* C16 witness: mark_completed was applied twice in a row to a job, the
\* second time after the clock had advanced.
C16_Witness ==
    \E c \in ApiClients :
        /\ client[c].last = "mark_completed"
        /\ client[c].repeat
        /\ HasJob(store, client[c].id)
        /\ store[client[c].id].state = "completed"
        /\ store[client[c].id].updated_at = clock
        /\ store[client[c].id].updated_at > store[client[c].id].created_at

\* The step is an enqueue of the client c that fails with `result`.
EnqueueFails(c, result) ==
    /\ client'[c] # client[c]
    /\ client'[c].pc = "idle"
    /\ client'[c].result = result

SumOfCounts(status) ==
    status["pending"] + status["processing"] + status["completed"]
       + status["failed"] + status["dead"]

\* C17: when status() returns, the sum of its five counts is the number of
\* jobs list() with no filter returns (the table held that number of rows
\* before status() started and holds it now), also while a worker moves
\* jobs between states.
C17_StatusSum ==
    \A c \in StatusClients :
        (client[c].pc = "done" /\ client[c].listed = Cardinality(DOMAIN store))
           => SumOfCounts(client[c].status) = Cardinality(DOMAIN store)

\* C18: for every job, no step decreases updated_at, and updated_at is
\* never below created_at, whatever the processes do on a clock that never
\* goes back.
C18_UpdatedAtMonotone ==
    [][\A id \in DOMAIN store :
          /\ store'[id].updated_at >= store[id].updated_at
          /\ store'[id].updated_at >= store'[id].created_at]_vars

\* The worker w was executing a command when stop_workers sent SIGTERM.
AskedWhileExecuting(w) ==
    \E c \in StopClients :
        client[c].pc \in {"stop_sleep", "stop_done"} /\ w \in client[c].busy

\* C19 as stated: once a worker that was asked to shut down while
\* executing a job has stopped, through the supervisor's stop() included,
\* no job carries its id as lock_id.
C19_StoppedHoldsNoLock ==
    \A w \in Workers :
        (AskedWhileExecuting(w) /\ worker[w].pc \in {"stopped", "killed"})
           => \A id \in DOMAIN store : store[id].lock_id # w

\* C19, amended: a worker asked to shut down while executing a job and not
\* killed runs the command to its outcome, writes completed for a success
\* and pending or dead for a failure, and has no job under its lock_id
\* once it has left its loop; the supervisor's stop() gives this to the
\* workers that get there within its grace window.
C19_CooperativeStop ==
    [][\A w \in Workers :
          /\ (worker[w].pc = "exec" /\ worker[w].should_stop
                 /\ worker'[w].pc \notin {"exec", "killed"})
                => CommandSucceeds(w) \/ FailureRead(w)
          /\ (CommandSucceeds(w) /\ HasJob(store, worker[w].job))
                => store'[worker[w].job].state = "completed"
          /\ FailureWritten(w)
                => store'[worker[w].job].state \in {"pending", "dead"}
          /\ worker'[w].pc = "stopped"
                => \A id \in DOMAIN store' : store'[id].lock_id # w]_vars

\* C19 witness: a worker that was executing a job when SIGTERM came has
\* left its loop before the SIGKILL, the job is completed and unlocked.
C19_Witness ==
    \E w \in Workers, c \in StopClients, id \in DOMAIN store :
        /\ client[c].pc = "stop_done"
        /\ w \in client[c].busy
        /\ worker[w].pc = "stopped"
        /\ store[id].state = "completed"
        /\ store[id].lock_id = None
        /\ execs[id] = 1

\* The job id is in the table, in a state that ends its run.
Terminal(id) == HasJob(store, id) /\ store[id].state \in {"completed", "dead"}

\* C20: under fair scheduling, with a worker that keeps running and a
\* clock that keeps advancing, every enqueued job eventually reaches
\* completed or dead, and a job that never completes eventually reaches
\* dead.
C20_EventuallyTerminal ==
    \A id \in JobIds :
        /\ HasJob(store, id) ~> Terminal(id)
        /\ [](HasJob(store, id) => store[id].state # "completed")
              => (HasJob(store, id)
                     ~> (HasJob(store, id) /\ store[id].state = "dead"))

\* C20 witness: a job with the default max_retries is dead after that many
\* failed executions, the clock having passed both its backoff delays.
C20_Witness ==
    \E id \in DOMAIN store :
        /\ store[id].state = "dead"
        /\ store[id].max_retries = DefaultMaxRetries
        /\ store[id].attempts = DefaultMaxRetries
        /\ store[id].created_at = 0
        /\ clock = MaxClock

\* The job id is processing under the lock_id of a worker that has died.
Orphaned(id) ==
    /\ HasJob(store, id)
    /\ store[id].state = "processing"
    /\ store[id].lock_id \in Workers
    /\ worker[store[id].lock_id].pc = "killed"

\* C21: a job that is processing under the lock_id of a dead worker is
\* changed by no step of any process and is not returned by the ready
\* query.
C21_OrphanedForever ==
    [][\A id \in JobIds :
          Orphaned(id) =>
             /\ store'[id] = store[id]
             /\ id \notin FirstReady(store, clock)]_vars

\* C22: release(id, claimant) on a job whose lock_id is claimant clears
\* lock_id (and stamps updated_at); on a job with another lock_id or none
\* it leaves the record as it was; it never changes state, attempts,
\* scheduled_at or error_message, nor any other record.
C22_ReleaseFrame ==
    [][\A c \in ApiClients :
          ApiCall(c, "release_job_lock") =>
             LET id == client'[c].id
                 claimant == client'[c].lock_id
             IN  /\ \A other \in DOMAIN store :
                       other # id => store'[other] = store[other]
                 /\ DOMAIN store' = DOMAIN store
                 /\ HasJob(store, id) =>
                       /\ store[id].lock_id = claimant =>
                             store'[id] = [store[id] EXCEPT
                                              !.lock_id = None,
                                              !.updated_at = clock]
                       /\ store[id].lock_id # claimant => store'[id] = store[id]
                       /\ store'[id].state = store[id].state
                       /\ store'[id].attempts = store[id].attempts
                       /\ store'[id].scheduled_at = store[id].scheduled_at
                       /\ store'[id].error_message = store[id].error_message]_vars

\* C22 witness: a release by a claimant that is not the owner has
\* returned, the job is still processing under its owner's lock_id.
C22_Witness ==
    \E c \in ApiClients :
        /\ client[c].last = "release_job_lock"
        /\ HasJob(store, client[c].id)
        /\ store[client[c].id].state = "processing"
        /\ store[client[c].id].lock_id \in ApiLockIds
        /\ store[client[c].id].lock_id # client[c].lock_id
        /\ store[client[c].id].updated_at < clock

\* The step is a start(count) of the client c returning or raising.
StartReturns(c) == client'[c] # client[c] /\ client'[c].pc = "start_done"

\* C23: start(count) while a PID of the pid file is live fails with
\* AlreadyRunning, starts no worker and leaves the pid file as it is; a
\* start that starts workers finds no worker live, and every live worker
\* is recorded in the pid file, so the live workers are those of one start.
C23_SingleStart ==
    [][/\ \A c \in SupervisorClients :
            StartReturns(c) =>
               /\ (\E w \in pidfile : Live(w)) =>
                     /\ client'[c].result = "AlreadyRunning"
                     /\ worker' = worker
                     /\ pidfile' = pidfile
               /\ client'[c].result = "ok" =>
                     /\ \A w \in Workers : ~Live(w)
                     /\ pidfile' = {w \in Workers : worker'[w].pc \notin Gone}
       /\ \A w \in Workers : worker'[w].pc \notin Gone => w \in pidfile']_vars

\* C23 witness: a start was refused when one of the two recorded workers
\* had exited and the other was still running, and this one runs on.
C23_Witness ==
    \E c \in SupervisorClients, w, v \in pidfile :
        /\ client[c].pc = "start_done"
        /\ client[c].result = "AlreadyRunning"
        /\ client[c].found = {v}
        /\ worker[w].pc = "stopped"
        /\ Live(v)

\* The step is worker w starting the command of the job it claimed.
ExecutionBegins(w) == worker[w].pc = "fetch" /\ worker'[w].pc = "exec"

\* C24: no worker begins executing a job whose scheduled_at is strictly in
\* the future.
C24_NoEarlyExecution ==
    [][\A w \in Workers :
          ExecutionBegins(w) =>
             \/ store[worker[w].job].scheduled_at = NoTime
             \/ store[worker[w].job].scheduled_at <= clock]_vars

\* The job id was executed once and that execution succeeded: it is
\* completed and one command was started for it.
SucceededAtFirst(id) ==
    HasJob(store, id) /\ store[id].state = "completed" /\ execs[id] = 1

\* C25: a job whose first execution succeeds is executed once in all:
\* while that execution runs no other worker wins a claim on the job, its
\* success leaves the job completed, and from then on the job stays
\* completed, no claim on it succeeds and no worker starts its command.
C25_ExecutedOnce ==
    [][\A id \in JobIds :
          /\ (execs[id] = 1 /\ HasJob(store, id)
                 /\ store[id].state \in {"processing", "completed"})
                => \A w \in Workers : ~(ClaimWon(w) /\ worker[w].job = id)
          /\ \A w \in Workers :
                (CommandSucceeds(w) /\ worker[w].job = id /\ execs[id] = 1)
                   => /\ store'[id].state = "completed"
                      /\ \A v \in Workers : v # w => ~Executing(v, id)
          /\ SucceededAtFirst(id)
                => /\ store'[id].state = "completed"
                   /\ execs'[id] = 1
                   /\ \A w \in Workers : ~(ExecutionBegins(w) /\ worker[w].job = id)]_vars

\* C25 witness: the job is completed after its only execution and has
\* been released, and the other worker, which had seen it ready, is about
\* to try its claim.
C25_Witness ==
    \E id \in JobIds, v \in Workers :
        /\ SucceededAtFirst(id)
        /\ store[id].lock_id = None
        /\ worker[v].pc = "claim"
        /\ worker[v].job = id

\* ============================================================= RunsSpec
\* The queue of Spec with execs counting the executions of a job since its
\* enqueue or its latest retry_from_dlq (the UPDATE of the retry starts the
\* count again), jobs enqueued with one or two retries, and the clock of
\* LiveSpec, which lets every backoff delay elapse.

\* The max_retries the clients of RunsSpec pass to enqueue.
RunsMaxRetries == 1 .. MaxExecs

\* retry_from_dlq, the storage.update_job call; the executions of the job
\* are counted from here.
RunsRetryUpdate(c) ==
    /\ client[c].pc = "retry_update"
    /\ store' = update_job(store, client[c].id, RetryUpdates, clock)
    /\ client' = [client EXCEPT ![c] = ClientInit]
    /\ execs' = [execs EXCEPT ![client[c].id] = 0]
    /\ UNCHANGED <<clock, worker, pidfile>>

RunsNext ==
    \/ LiveTick
    \/ \E id \in JobIds, command \in Commands, mr \in RunsMaxRetries :
          Enqueue(id, command, mr, NoTime)
    \/ \E c \in Clients, id \in JobIds : RetryGet(c, id)
    \/ \E c \in Clients : RunsRetryUpdate(c)
    \/ \E w \in Workers : Poll(w)
    \/ \E w \in Workers : Claim(w)
    \/ \E w \in Workers : Fetch(w)
    \/ \E w \in Workers : MarkCompleted(w)
    \/ \E w \in Workers, err \in Errors : MarkFailedGet(w, err)
    \/ \E w \in Workers : MarkFailedUpdate(w)
    \/ \E w \in Workers : Release(w)

RunsSpec == Init /\ [][RunsNext]_vars

\* The job id has not reached completed or dead.
Unfinished(id) ==
    HasJob(store, id) /\ store[id].state \notin {"completed", "dead"}

\* C26: between its enqueue (or its latest retry_from_dlq) and the moment
\* it reaches completed or dead, a job with max_retries = m >= 1 is
\* executed at most m times: no worker starts the command of an unfinished
\* job that has been executed m times since then.
C26_AtMostMaxRetries ==
    [][\A w \in Workers :
          (ExecutionBegins(w) /\ Unfinished(worker[w].job)
              /\ store[worker[w].job].max_retries \in RunsMaxRetries)
             => execs[worker[w].job] < store[worker[w].job].max_retries]_vars

\* ========================================================= ShutdownSpec
\* The queue of LiveSpec with every worker open to a shutdown signal, and
\* with weak fairness on the exit from the run loop as well: a worker that
\* is at the loop head with should_stop set leaves the loop.

ShutdownNext ==
    \/ LiveNext
    \/ \E w \in Workers : Signal(w)
    \/ \E w \in Workers : Exit(w)

ShutdownFairness ==
    /\ LiveFairness
    /\ \A w \in Workers : WF_vars(Exit(w))

ShutdownSpec == Init /\ [][ShutdownNext]_vars /\ ShutdownFairness

\* The worker holds a claim it won: it is between acquire_job_lock
\* returning True and the end of _process_job.
InFlight(w) == worker[w].pc \in {"fetch", "exec", "mf_update", "release"}

\* C27 as stated: once the shutdown flag is set the worker starts no
\* further job, that is, it wins no claim from then on.
C27_NoFurtherJob ==
    [][\A w \in Workers : worker[w].should_stop => ~ClaimWon(w)]_vars

\* C27, amended: once the shutdown flag is set it stays set; the worker
\* begins no further pass of the loop, so it takes up no job other than
\* the candidate of the pass it was in when the flag was set; a claim it
\* holds is carried through the end of _process_job; it leaves the loop
\* only from the loop head; and it eventually exits.
C27_Termination ==
    /\ [][\A w \in Workers :
            worker[w].should_stop =>
               /\ worker'[w].should_stop
               /\ worker'[w].pc = "claim" => worker[w].pc = "claim"
               /\ worker'[w].pc = "stopped" =>
                      worker[w].pc \in {"poll", "stopped"}
               /\ (InFlight(w) /\ worker'[w].pc = "poll") =>
                      worker[w].pc = "release"]_vars
    /\ \A w \in Workers :
          worker[w].should_stop ~> worker[w].pc = "stopped"

\* C27 witness: one worker has left the loop on its flag, the other has
\* its flag set while the command of its job is running.
C27_Witness ==
    \E w, v \in Workers, id \in JobIds :
        /\ worker[w].pc = "stopped"
        /\ worker[w].should_stop
        /\ worker[v].should_stop
        /\ Executing(v, id)
        /\ store[id].lock_id = v

====
